---- MODULE Spec2Model ----
(***************************************************************************)
(* Model of the multi-agent orchestration sample                           *)
(* (samples/MultiAgentCodeOrchestration/main.py) and of the conversation   *)
(* renderer (gui/conversation.py).                                         *)
(*                                                                         *)
(* asyncio is single-threaded and cooperative: the code between two awaits *)
(* runs atomically, so every action below is one such stretch of a         *)
(* coroutine.  The asyncio.Condition's lock is FIFO: it is modelled by the *)
(* queue cond_lock, whose head is the holder.                              *)
(***************************************************************************)
EXTENDS Integers, Sequences, FiniteSets, TLC

\* ---------------------------------------------------------------- bounds
NumBatches == 3
MaxRequests == 2
NumExecBatches == 2
MaxWaits == 2
NumThreads == 2
MaxMessages == 2
MaxForwards == 2
MaxPieces == 3
MaxPrompts == 3
MaxParts == 3
MaxRenders == 1
MaxLines == 2
MaxMessageList == 2
MaxAppends == 2
MaxUrlParts == 4
MaxUrlPasses == 2
MaxParseParts == 4
MaxParses == 1
MaxChunkLen == 1
MaxChunks == 4

\* ------------------------------------------------------- program constants
AssistantNames ==
    {"CodeProgrammerAgent", "CodeInspectionAgent", "TaskPlannerAgent", "FileCreatorAgent"}
Producer == "CodeProgrammerAgent"
Consumer == "FileCreatorAgent"
Planner == "TaskPlannerAgent"

\* the assistants a planner task list may name
WorkerNames == {"CodeProgrammerAgent", "CodeInspectionAgent"}

\* schedule ids are fresh per batch (uuid4 in the task manager)
SchedIds == 1..NumBatches
\* the batches that run on_task_execute side by side in ExecSpec
ExecIds == 1..NumExecBatches
\* the coroutine of main() that calls wait_for_all_tasks, as a lock owner
Waiter == 0
\* value of self.thread_name before the first on_task_started (attribute unset)
NoThread == 0

\* response=None of on_run_end, and a thread without a text message of a sender
NoResponse == "<None>"
Responses == {NoResponse, "inline response"}
\* conversation threads that runs end on, and the texts of their messages
RunThreads == 1..NumThreads
Contents == {"text 1", "text 2"}

RECURSIVE SeqsUpTo(_, _)
SeqsUpTo(S, n) ==
    IF n = 0 THEN {<<>>}
    ELSE LET shorter == SeqsUpTo(S, n - 1)
         IN  shorter \cup {Append(q, x) : q \in {r \in shorter : Len(r) = n - 1}, x \in S}

\* AsyncMultiTask.requests: the "assistant" field of each request, in order
TaskLists == SeqsUpTo(WorkerNames, MaxRequests)

VARIABLES
    main_pc,                 \* position of main()
    prompts,                 \* lines read from standard input so far
    reply,                   \* planner reply handled by the current iteration, as tokens
    assistants,              \* orchestrator._assistants (the loaded names)
    task_completion_events,  \* dict schedule_id -> Event, in insertion order
    task_started,            \* self.task_started
    cond_lock,               \* self.condition's lock: FIFO of owners, head holds it
    thread_name,             \* self.thread_name
    wpc,                     \* position of wait_for_all_tasks
    widx,                    \* position of its iteration over the events
    waits,                   \* calls of wait_for_all_tasks that have returned
    bpc,                     \* per batch: position in the callback life cycle
    requests,                \* per batch: task.requests
    req_idx,                 \* per batch: requests already taken by the for loop
    exec_log,                \* per batch: calls made by on_task_execute, in order
    conversation,            \* per thread: its text messages, oldest first
    consumer_inputs,         \* user_request of each process_messages call on the consumer
    run_end_error,           \* exception raised by the last on_run_end, if any
    text_to_url_map,         \* ConversationView.text_to_url_map: label -> path
    prose,                   \* text argument of the last format_file_links call
    updated_text,            \* what that call returned
    renders,                 \* format_file_links calls made so far
    transcript,              \* document of conversationView: the insertions, in order
    scroll_value,            \* vertical scroll bar: insertions above the view's bottom edge
    appends,                 \* append_message and append_messages calls made so far
    url_in,                  \* text argument of the last format_urls call
    url_out,                 \* what that call returned
    url_passes,              \* format_urls calls made on the text and its results
    parsed_message,          \* message argument of the last parse_message call
    parsed_segments,         \* what that call returned
    parses,                  \* parse_message calls made so far
    stream,                  \* append_message_chunk calls since the last start of a message
    chunk_calls              \* append_message_chunk calls made so far

\* state of the rendezvous between the callbacks and wait_for_all_tasks
rendezvousVars == <<task_completion_events, task_started, cond_lock, wpc, widx, waits>>
\* state of on_task_execute
execVars == <<requests, req_idx, exec_log>>
\* state of main() and initialize_assistants
mainVars == <<main_pc, prompts, reply, assistants>>

\* state of on_run_end and of the conversations it reads
runVars == <<conversation, consumer_inputs, run_end_error>>

\* state of the conversation view
\* history of the format_file_links calls
fileLinkVars == <<text_to_url_map, prose, updated_text, renders>>
\* history of the format_urls calls
urlVars == <<url_in, url_out, url_passes>>
\* history of the parse_message calls
parseVars == <<parsed_message, parsed_segments, parses>>
\* history of the append_message_chunk calls
chunkVars == <<stream, chunk_calls>>
renderVars == <<fileLinkVars, transcript, scroll_value, appends, urlVars, parseVars, chunkVars>>

vars == <<mainVars, rendezvousVars, thread_name, bpc, execVars, runVars, renderVars>>

\* ---------------------------------------------------------------- helpers
HasEvent(s) == \E i \in 1..Len(task_completion_events) : task_completion_events[i].sid = s

\* dict assignment: an existing key keeps its place, a new key goes last
PutEvent(evs, s) ==
    IF \E i \in 1..Len(evs) : evs[i].sid = s
    THEN [i \in 1..Len(evs) |-> IF evs[i].sid = s THEN [sid |-> s, is_set |-> FALSE] ELSE evs[i]]
    ELSE Append(evs, [sid |-> s, is_set |-> FALSE])

\* event = dict.get(schedule_id); if event: event.set()
SetEvent(evs, s) ==
    [i \in 1..Len(evs) |-> IF evs[i].sid = s THEN [sid |-> s, is_set |-> TRUE] ELSE evs[i]]

LockHeldBy(p) == cond_lock # <<>> /\ Head(cond_lock) = p

\* ------------------------------------------------------------------- Init
Init ==
    /\ main_pc = "start"
    /\ prompts = 0
    /\ reply = <<>>
    /\ assistants = {}
    /\ task_completion_events = <<>>
    /\ task_started = FALSE
    /\ cond_lock = <<>>
    /\ thread_name = NoThread
    /\ wpc = "idle"
    /\ widx = 0
    /\ waits = 0
    /\ bpc = [s \in SchedIds |-> "idle"]
    /\ requests = [s \in SchedIds |-> <<>>]
    /\ req_idx = [s \in SchedIds |-> 0]
    /\ exec_log = [s \in SchedIds |-> <<>>]
    /\ conversation = [t \in RunThreads |-> <<>>]
    /\ consumer_inputs = <<>>
    /\ run_end_error = "none"
    /\ text_to_url_map = <<>>
    /\ prose = <<>>
    /\ updated_text = <<>>
    /\ renders = 0
    /\ transcript = <<>>
    /\ scroll_value = 0
    /\ appends = 0
    /\ url_in = <<>>
    /\ url_out = <<>>
    /\ url_passes = 0
    /\ parsed_message = <<>>
    /\ parsed_segments = <<>>
    /\ parses = 0
    /\ stream = [started |-> FALSE, from |-> 0, sender |-> <<>>, chunks |-> <<>>]
    /\ chunk_calls = 0

\* ------------------------------------------------ initialize_assistants
\* failed: the names whose configuration file could not be read
InitializeAssistants(failed) ==
    /\ main_pc = "start"
    /\ assistants' = AssistantNames \ failed
    /\ main_pc' = "ready"
    /\ UNCHANGED <<prompts, reply, rendezvousVars, thread_name, bpc, execVars, runVars, renderVars>>

\* --------------------------- extract_json_code_block, requires_user_confirmation
\* A reply is a sequence of tokens: "<fence>" for three backticks, the tag "json", a line
\* break, a JSON value, and prose with or without a question mark.
JsonValues == {"[]", "\"why?\""}
QuestionTokens == {"?", "\"why?\""}

Min(S) == CHOOSE x \in S : \A y \in S : x <= y

\* the pattern <fence>json\n([\s\S]*?)\n<fence> tried at position i: the position of
\* the last token of the shortest match, 0 if there is none
BlockEnd(text, i) ==
    IF i + 2 <= Len(text) /\ text[i] = "<fence>" /\ text[i + 1] = "json" /\ text[i + 2] = "\n"
    THEN LET ends == {j \in (i + 3)..(Len(text) - 1) : text[j] = "\n" /\ text[j + 1] = "<fence>"}
         IN  IF ends = {} THEN 0 ELSE Min(ends) + 1
    ELSE 0

\* re.search / the next step of re.sub: the leftmost match at or after from
FirstBlock(text, from) ==
    LET starts == {i \in from..Len(text) : BlockEnd(text, i) # 0}
    IN  IF starts = {} THEN 0 ELSE Min(starts)

extract_json_code_block(text) ==
    LET i == FirstBlock(text, 1)
    IN  IF i = 0 THEN text ELSE SubSeq(text, i + 3, BlockEnd(text, i) - 2)

RECURSIVE RemoveJsonBlocks(_, _)
RemoveJsonBlocks(text, from) ==
    LET i == FirstBlock(text, from)
    IN  IF i = 0 THEN SubSeq(text, from, Len(text))
        ELSE SubSeq(text, from, i - 1) \o RemoveJsonBlocks(text, BlockEnd(text, i) + 1)

\* as requires_user_confirmation would be if it looked at the whole reply
requires_user_confirmation_Whole(assistant_response) ==
    \E k \in 1..Len(assistant_response) : assistant_response[k] \in QuestionTokens

requires_user_confirmation(assistant_response) ==
    LET stripped == RemoveJsonBlocks(assistant_response, 1)
    IN  \E k \in 1..Len(stripped) : stripped[k] \in QuestionTokens

\* json.loads succeeds: one JSON value, white space around it allowed
IsJson(text) ==
    LET IsBlack(tok) == tok # "\n"
        body == SelectSeq(text, IsBlack)
    IN  Len(body) = 1 /\ body[1] \in JsonValues

\* the replies of the planner: up to MaxPieces pieces put one after the other
Pieces ==
    { <<"<fence>", "json", "\n", "[]", "\n", "<fence>">>,
      <<"<fence>", "json", "\n", "\"why?\"", "\n", "<fence>">>,
      <<"<fence>", "json", "\n">>,
      <<"[]">>, <<"\"why?\"">>, <<"?">>, <<"text">> }

RECURSIVE Flatten(_)
Flatten(ps) == IF ps = <<>> THEN <<>> ELSE Head(ps) \o Flatten(Tail(ps))

Replies == {Flatten(ps) : ps \in SeqsUpTo(Pieces, MaxPieces)}

\* ------------------------------------------------------------------ main
\* input(): "exit" ends the loop
MainReadExit ==
    /\ main_pc = "ready"
    /\ prompts < MaxPrompts
    /\ prompts' = prompts + 1
    /\ main_pc' = "exited"
    /\ reply' = <<>>
    /\ UNCHANGED <<assistants, rendezvousVars, thread_name, bpc, execVars, runVars, renderVars>>

\* input(): an empty line is skipped
MainReadEmpty ==
    /\ main_pc = "ready"
    /\ prompts < MaxPrompts
    /\ prompts' = prompts + 1
    /\ reply' = <<>>
    /\ UNCHANGED <<main_pc, assistants, rendezvousVars, thread_name, bpc, execVars, runVars, renderVars>>

\* input(): a request is posted to the planner's thread and the planner is
\* looked up in the dict that initialize_assistants returned
MainReadRequest ==
    /\ main_pc = "ready"
    /\ prompts < MaxPrompts
    /\ prompts' = prompts + 1
    /\ main_pc' = IF Planner \in assistants THEN "planner" ELSE "crashed"
    /\ reply' = <<>>
    /\ UNCHANGED <<assistants, rendezvousVars, thread_name, bpc, execVars, runVars, renderVars>>

\* the planner has answered with content: the try block of the loop
MainPlannerReply(content) ==
    /\ main_pc = "planner"
    /\ reply' = content
    /\ main_pc' = IF requires_user_confirmation(content) THEN "ready"
                  ELSE IF ~IsJson(extract_json_code_block(content)) THEN "ready"
                  ELSE "parsed"
    /\ UNCHANGED <<prompts, assistants, rendezvousVars, thread_name, bpc, execVars, runVars, renderVars>>

\* ------------------------------------- AsyncMultiTask(tasks); schedule_task
\* main() hands a batch to the task manager, which gives it a fresh schedule id
ScheduleTask(s, reqs) ==
    /\ bpc[s] = "idle"
    /\ requests' = [requests EXCEPT ![s] = reqs]
    /\ bpc' = [bpc EXCEPT ![s] = "scheduled"]
    /\ main_pc' = IF main_pc = "parsed" THEN "scheduled" ELSE main_pc
    /\ UNCHANGED <<prompts, reply, assistants, rendezvousVars, thread_name, req_idx,
                   exec_log, runVars, renderVars>>

\* ------------------------------------------------------- on_task_started
\* as on_task_started would be if it went on without waiting for the lock
OnTaskStartedEnter_NoLock(s) ==
    /\ bpc[s] = "scheduled"
    /\ cond_lock' = <<s>> \o cond_lock
    /\ bpc' = [bpc EXCEPT ![s] = "started_lock"]
    /\ UNCHANGED <<mainVars, task_completion_events, task_started, thread_name, wpc, widx, waits, execVars, runVars, renderVars>>

OnTaskStartedEnter(s) ==
    /\ bpc[s] = "scheduled"
    /\ cond_lock' = Append(cond_lock, s)
    /\ bpc' = [bpc EXCEPT ![s] = "started_lock"]
    /\ UNCHANGED <<mainVars, task_completion_events, task_started, thread_name, wpc, widx, waits, execVars, runVars, renderVars>>

\* as on_task_started would be if it rebuilt the dict around the new event
OnTaskStartedRegister_Rebuild(s) ==
    /\ bpc[s] = "started_lock"
    /\ LockHeldBy(s)
    /\ task_completion_events' =
          [i \in 1..Len(PutEvent(task_completion_events, s)) |->
              [sid |-> PutEvent(task_completion_events, s)[i].sid, is_set |-> FALSE]]
    /\ task_started' = TRUE
    /\ wpc' = IF wpc = "cond_wait" THEN "cond_notified" ELSE wpc
    /\ bpc' = [bpc EXCEPT ![s] = "started_create"]
    /\ UNCHANGED <<mainVars, cond_lock, thread_name, widx, execVars, waits, runVars, renderVars>>

OnTaskStartedRegister(s) ==
    /\ bpc[s] = "started_lock"
    /\ LockHeldBy(s)
    /\ task_completion_events' = PutEvent(task_completion_events, s)
    /\ task_started' = TRUE
    /\ wpc' = IF wpc = "cond_wait" THEN "cond_notified" ELSE wpc
    /\ bpc' = [bpc EXCEPT ![s] = "started_create"]
    /\ UNCHANGED <<mainVars, cond_lock, thread_name, widx, execVars, waits, runVars, renderVars>>

OnTaskStartedExit(s) ==
    /\ bpc[s] = "started_create"
    /\ thread_name' = s
    /\ cond_lock' = Tail(cond_lock)
    /\ bpc' = [bpc EXCEPT ![s] = "started"]
    /\ UNCHANGED <<mainVars, task_completion_events, task_started, wpc, widx, execVars, waits, runVars, renderVars>>

\* ------------------------------------------------------- on_task_execute
LogEntry(op, i, a) == [op |-> op, idx |-> i, assistant |-> a]

\* thread_name argument of the calls that on_task_execute makes: the field is
\* read anew for every call
CallThread == thread_name

OnTaskExecuteRequest(s) ==
    /\ bpc[s] \in {"started", "exec_loop"}
    /\ req_idx[s] < Len(requests[s])
    /\ LET i == req_idx[s] + 1
           a == requests[s][i]
       IN  /\ req_idx' = [req_idx EXCEPT ![s] = i]
           /\ IF a \in assistants
              THEN /\ bpc' = [bpc EXCEPT ![s] = "exec_post"]
                   /\ exec_log' = [exec_log EXCEPT
                                     ![s] = Append(@, LogEntry("post", i, a))]
              ELSE /\ bpc' = [bpc EXCEPT ![s] = "raised"]
                   /\ UNCHANGED exec_log
    /\ UNCHANGED <<mainVars, rendezvousVars, thread_name, requests, runVars, renderVars>>

\* as the loop would be if it started the agent with create_task and went on
OnTaskExecuteInvoke_NoAwait(s) ==
    /\ bpc[s] = "exec_post"
    /\ LET i == req_idx[s]
           a == requests[s][i]
       IN  exec_log' = [exec_log EXCEPT
                          ![s] = Append(@, LogEntry("invoke", i, a))]
    /\ bpc' = [bpc EXCEPT ![s] = "exec_loop"]
    /\ UNCHANGED <<mainVars, rendezvousVars, thread_name, requests, req_idx, runVars, renderVars>>

OnTaskExecuteInvoke(s) ==
    /\ bpc[s] = "exec_post"
    /\ LET i == req_idx[s]
           a == requests[s][i]
       IN  exec_log' = [exec_log EXCEPT
                          ![s] = Append(@, LogEntry("invoke", i, a))]
    /\ bpc' = [bpc EXCEPT ![s] = "exec_agent"]
    /\ UNCHANGED <<mainVars, rendezvousVars, thread_name, requests, req_idx, runVars, renderVars>>

OnTaskExecuteAgentDone(s) ==
    /\ bpc[s] = "exec_agent"
    /\ LET i == req_idx[s]
           a == requests[s][i]
       IN  exec_log' = [exec_log EXCEPT
                          ![s] = Append(@, LogEntry("done", i, a))]
    /\ bpc' = [bpc EXCEPT ![s] = "exec_loop"]
    /\ UNCHANGED <<mainVars, rendezvousVars, thread_name, requests, req_idx, runVars, renderVars>>

OnTaskExecuteReturn(s) ==
    /\ bpc[s] \in {"started", "exec_loop"}
    /\ req_idx[s] = Len(requests[s])
    /\ bpc' = [bpc EXCEPT ![s] = "executed"]
    /\ UNCHANGED <<mainVars, rendezvousVars, thread_name, execVars, runVars, renderVars>>

\* ------------------------------------- on_task_completed / on_task_failed
\* The task manager awaits one callback of a batch before it makes the next:
\* no terminal callback arrives while on_task_started or on_task_execute of
\* the same batch is still running.
InCallback == {"scheduled", "started_lock", "started_create", "exec_post", "exec_agent", "exec_loop"}
\* positions of a batch that has been started and owes its terminal callback
TerminalDue == {"started", "executed", "raised"}

\* as on_task_completed would be with setdefault(schedule_id, Event()) for get
OnTaskCompleted_SetDefault(s) ==
    /\ bpc[s] \notin InCallback
    /\ task_completion_events' = SetEvent(PutEvent(task_completion_events, s), s)
    /\ task_started' = FALSE
    /\ bpc' = [bpc EXCEPT ![s] = IF @ \in TerminalDue THEN "done" ELSE @]
    /\ UNCHANGED <<mainVars, cond_lock, thread_name, wpc, widx, execVars, waits, runVars, renderVars>>

OnTaskCompleted(s) ==
    /\ bpc[s] \notin InCallback
    /\ task_completion_events' = SetEvent(task_completion_events, s)
    /\ task_started' = FALSE
    /\ bpc' = [bpc EXCEPT ![s] = IF @ \in TerminalDue THEN "done" ELSE @]
    /\ UNCHANGED <<mainVars, cond_lock, thread_name, wpc, widx, execVars, waits, runVars, renderVars>>

OnTaskFailed(s) ==
    /\ bpc[s] \notin InCallback
    /\ task_completion_events' = SetEvent(task_completion_events, s)
    /\ task_started' = FALSE
    /\ bpc' = [bpc EXCEPT ![s] = IF @ \in TerminalDue THEN "done" ELSE @]
    /\ UNCHANGED <<mainVars, cond_lock, thread_name, wpc, widx, execVars, waits, runVars, renderVars>>

\* ------------------------------------------------------------ on_run_end
\* a run of agent a leaves a text message on thread t
AgentMessage(t, a, c) ==
    /\ Len(conversation[t]) < MaxMessages
    /\ conversation' = [conversation EXCEPT ![t] = Append(@, [sender |-> a, content |-> c])]
    /\ UNCHANGED <<mainVars, rendezvousVars, thread_name, bpc, execVars,
                   consumer_inputs, run_end_error, renderVars>>

HasTextMessage(t, a) == \E i \in 1..Len(conversation[t]) : conversation[t][i].sender = a

\* conversation.get_last_text_message(sender)
GetLastTextMessage(t, a) ==
    LET own == {i \in 1..Len(conversation[t]) : conversation[t][i].sender = a}
    IN  conversation[t][CHOOSE i \in own : \A j \in own : j <= i]

\* on_run_end(assistant_name=a, thread_name=t, response): the run of a loaded
\* agent that has written a text message on t has ended
OnRunEnd(a, t, response) ==
    /\ a \in assistants
    /\ HasTextMessage(t, a)
    /\ Len(consumer_inputs) < MaxForwards
    /\ IF response # NoResponse
       THEN /\ run_end_error' = "none"
            /\ UNCHANGED consumer_inputs
       ELSE IF a = Producer
            THEN IF Consumer \in assistants
                 THEN /\ consumer_inputs' =
                           Append(consumer_inputs, GetLastTextMessage(t, a).content)
                      /\ run_end_error' = "none"
                 ELSE /\ run_end_error' = "KeyError"
                      /\ UNCHANGED consumer_inputs
            ELSE /\ run_end_error' = "none"
                 /\ UNCHANGED consumer_inputs
    /\ UNCHANGED <<mainVars, rendezvousVars, thread_name, bpc, execVars, conversation, renderVars>>

\* ---------------------------------------------------- wait_for_all_tasks
WaitCall ==
    /\ wpc \in {"idle", "returned"}
    /\ waits < MaxWaits
    /\ cond_lock' = Append(cond_lock, Waiter)
    /\ wpc' = "lock"
    /\ main_pc' = IF main_pc = "scheduled" THEN "waiting" ELSE main_pc
    /\ UNCHANGED <<prompts, reply, assistants, task_completion_events, task_started,
                   thread_name, widx, bpc, execVars, waits, runVars, renderVars>>

\* the test of "while not self.task_started", holding the lock
WaitCheckStarted ==
    /\ wpc = "lock"
    /\ LockHeldBy(Waiter)
    /\ IF task_started
       THEN /\ wpc' = "events"
            /\ widx' = 1
            /\ UNCHANGED cond_lock
       ELSE /\ wpc' = "cond_wait"
            /\ cond_lock' = Tail(cond_lock)
            /\ UNCHANGED widx
    /\ UNCHANGED <<mainVars, task_completion_events, task_started, thread_name, bpc, execVars, waits, runVars, renderVars>>

\* condition.wait() after notify_all: takes the lock again
WaitReacquire ==
    /\ wpc = "cond_notified"
    /\ cond_lock' = Append(cond_lock, Waiter)
    /\ wpc' = "lock"
    /\ UNCHANGED <<mainVars, task_completion_events, task_started, thread_name, widx, bpc, execVars, waits, runVars, renderVars>>

\* as the loop would be if it stepped over the events without awaiting them
WaitEvent_NoAwait ==
    /\ wpc = "events"
    /\ widx <= Len(task_completion_events)
    /\ widx' = widx + 1
    /\ UNCHANGED <<mainVars, task_completion_events, task_started, cond_lock, thread_name, wpc, bpc, execVars, waits, runVars, renderVars>>

\* await event.wait() for the event at position widx
WaitEvent ==
    /\ wpc = "events"
    /\ widx <= Len(task_completion_events)
    /\ task_completion_events[widx].is_set
    /\ widx' = widx + 1
    /\ UNCHANGED <<mainVars, task_completion_events, task_started, cond_lock, thread_name, wpc, bpc, execVars, waits, runVars, renderVars>>

WaitReturn ==
    /\ wpc = "events"
    /\ widx > Len(task_completion_events)
    /\ cond_lock' = Tail(cond_lock)
    /\ wpc' = "returned"
    /\ widx' = 0
    /\ waits' = waits + 1
    /\ main_pc' = IF main_pc = "waiting" THEN "ready" ELSE main_pc
    /\ UNCHANGED <<prompts, reply, assistants, task_completion_events, task_started,
                   thread_name, bpc, execVars, runVars, renderVars>>

\* ------------------------------------------------------------------- Spec
\* The rendezvous: the callbacks of the task manager, in any interleaving,
\* against one coroutine that calls wait_for_all_tasks again and again.
\* Terminal callbacks may arrive for any schedule id, registered or not,
\* and may repeat.
Next ==
    \/ \E s \in SchedIds : ScheduleTask(s, <<>>)
    \/ \E s \in SchedIds : OnTaskStartedEnter(s)
    \/ \E s \in SchedIds : OnTaskStartedRegister(s)
    \/ \E s \in SchedIds : OnTaskStartedExit(s)
    \/ \E s \in SchedIds : OnTaskCompleted(s)
    \/ \E s \in SchedIds : OnTaskFailed(s)
    \/ WaitCall
    \/ WaitCheckStarted
    \/ WaitReacquire
    \/ WaitEvent
    \/ WaitReturn

Spec == Init /\ [][Next]_vars

\* ------------------------------------------------------ claims under Spec
AllSignaled(evs) == \A i \in 1..Len(evs) : evs[i].is_set
IsRegistered(evs, s) == \E i \in 1..Len(evs) : evs[i].sid = s
IsSignaled(evs, s) == \E i \in 1..Len(evs) : evs[i].sid = s /\ evs[i].is_set

\* C1: wait_for_all_tasks returns only when every schedule id that is in the
\* event map at the moment of the return has had its event signaled.
C1_ReturnOnlyWhenAllSignaled ==
    [][(wpc # "returned" /\ wpc' = "returned")
          => \A s \in SchedIds :
                IsRegistered(task_completion_events', s) => IsSignaled(task_completion_events', s)]_vars

\* a wait has returned with several schedule ids registered
C1_Witness ==
    /\ wpc = "returned"
    /\ Len(task_completion_events) >= 2

\* C3: a wait that finds no batch in progress leaves condition.wait() only by
\* an on_task_started; on_task_started registers an unsignaled event for its
\* schedule id, sets the flag and wakes the waiter; registered ids stay
\* registered and a wait returns only with all of them signaled; a signaled
\* event is never reset, and a waiter standing at a signaled event can go on.
C3_WakeOnlyByStart ==
    [][(wpc = "cond_wait" /\ wpc' # "cond_wait")
          => /\ wpc' = "cond_notified"
             /\ \E s \in SchedIds : bpc[s] = "started_lock" /\ bpc'[s] = "started_create"]_vars
C3_StartRegisters ==
    [][\A s \in SchedIds :
          (bpc[s] = "started_lock" /\ bpc'[s] = "started_create")
             => /\ IsRegistered(task_completion_events', s)
                /\ ~IsSignaled(task_completion_events', s)
                /\ task_started'
                /\ (wpc = "cond_wait" => wpc' = "cond_notified")]_vars
C3_NoEarlyReturn ==
    [][/\ \A s \in SchedIds :
             IsRegistered(task_completion_events, s) => IsRegistered(task_completion_events', s)
       /\ (wpc # "returned" /\ wpc' = "returned") => AllSignaled(task_completion_events)]_vars
C3_NeverReset ==
    [][\A i \in 1..Len(task_completion_events) :
          task_completion_events[i].is_set
             => /\ i <= Len(task_completion_events')
                /\ task_completion_events'[i] = task_completion_events[i]]_vars
C3_SignaledDoesNotBlock ==
    [](  (wpc = "events" /\ widx <= Len(task_completion_events)
             /\ task_completion_events[widx].is_set)
         => ENABLED WaitEvent)
C3_RepeatedWaits ==
    /\ C3_WakeOnlyByStart
    /\ C3_StartRegisters
    /\ C3_NoEarlyReturn
    /\ C3_NeverReset
    /\ C3_SignaledDoesNotBlock

\* in a later iteration the waiter was blocked, a new batch has woken it, and
\* the map holds both an event signaled earlier and the new unsignaled one
C3_Witness ==
    /\ waits >= 1
    /\ wpc = "cond_notified"
    /\ \E i, j \in 1..Len(task_completion_events) :
          task_completion_events[i].is_set /\ ~task_completion_events[j].is_set

\* C16: while wait_for_all_tasks passes over the event map, from the moment
\* it has seen the flag set until it returns, no event is added to the map
\* and none is replaced by a fresh one, and an on_task_started that has
\* asked for the lock cannot register.
C16_MapFixedDuringPass ==
    [][wpc = "events"
          => /\ Len(task_completion_events') = Len(task_completion_events)
             /\ \A i \in 1..Len(task_completion_events) :
                   /\ task_completion_events'[i].sid = task_completion_events[i].sid
                   /\ task_completion_events[i].is_set => task_completion_events'[i].is_set]_vars
C16_RegistrationBlocked ==
    [](wpc = "events" => \A s \in SchedIds : ~ENABLED OnTaskStartedRegister(s))
C16_RegistrationExcludesPass == C16_MapFixedDuringPass /\ C16_RegistrationBlocked

\* the waiter is held up by an unsignaled event while the on_task_started of
\* another batch waits for the lock
C16_Witness ==
    /\ wpc = "events"
    /\ widx <= Len(task_completion_events)
    /\ ~task_completion_events[widx].is_set
    /\ \E s \in SchedIds : bpc[s] = "started_lock" /\ ~HasEvent(s)

\* C4: a terminal callback signals the event of its schedule id if one is
\* registered, clears the flag, and changes nothing else: the registered ids
\* and the other events stay as they are, a signaled event stays signaled,
\* and the batch is not put back into execution.
TerminalFrame(s) ==
    /\ task_started' = FALSE
    /\ Len(task_completion_events') = Len(task_completion_events)
    /\ \A i \in 1..Len(task_completion_events) :
          /\ task_completion_events'[i].sid = task_completion_events[i].sid
          /\ task_completion_events'[i].is_set =
                (task_completion_events[i].is_set \/ task_completion_events[i].sid = s)
    /\ UNCHANGED <<mainVars, cond_lock, thread_name, wpc, widx, waits, execVars, runVars, renderVars>>
    /\ \A r \in SchedIds : bpc'[r] = bpc[r] \/ (r = s /\ bpc'[r] = "done")
C4_TerminalCallbackFrame ==
    [][\A s \in SchedIds : (OnTaskCompleted(s) \/ OnTaskFailed(s)) => TerminalFrame(s)]_vars

\* a batch has ended while another registered batch is still unsignaled and
\* a third id was never registered
C4_Witness ==
    /\ ~task_started
    /\ \E s, r, q \in SchedIds :
          /\ bpc[s] = "done" /\ IsSignaled(task_completion_events, s)
          /\ IsRegistered(task_completion_events, r) /\ ~IsSignaled(task_completion_events, r)
          /\ ~IsRegistered(task_completion_events, q)

\* ---------------------------------------------------------------- LiveSpec
\* The life cycle the task manager promises: every batch that was started
\* gets one terminal callback.  As in main(), scheduling a batch and calling
\* wait_for_all_tasks alternate.
\* The coroutines that can run do run; nothing obliges the user to submit
\* another batch.
Scheduled == Cardinality({s \in SchedIds : bpc[s] # "idle"})

LiveNext ==
    \/ \E s \in SchedIds : wpc \in {"idle", "returned"} /\ Scheduled = waits
                              /\ ScheduleTask(s, <<>>)
    \/ \E s \in SchedIds : OnTaskStartedEnter(s)
    \/ \E s \in SchedIds : OnTaskStartedRegister(s)
    \/ \E s \in SchedIds : OnTaskStartedExit(s)
    \/ \E s \in SchedIds : bpc[s] \in TerminalDue /\ OnTaskCompleted(s)
    \/ \E s \in SchedIds : bpc[s] \in TerminalDue /\ OnTaskFailed(s)
    \/ Scheduled = waits + 1 /\ WaitCall
    \/ WaitCheckStarted
    \/ WaitReacquire
    \/ WaitEvent
    \/ WaitReturn

LiveFairness ==
    /\ \A s \in SchedIds : WF_vars(OnTaskStartedEnter(s))
    /\ \A s \in SchedIds : WF_vars(OnTaskStartedRegister(s))
    /\ \A s \in SchedIds : WF_vars(OnTaskStartedExit(s))
    /\ \A s \in SchedIds :
          WF_vars(bpc[s] \in TerminalDue /\ (OnTaskCompleted(s) \/ OnTaskFailed(s)))
    /\ WF_vars(WaitCheckStarted)
    /\ WF_vars(WaitReacquire)
    /\ WF_vars(WaitEvent)
    /\ WF_vars(WaitReturn)

LiveSpec == Init /\ [][LiveNext]_vars /\ LiveFairness

\* C2: every call of wait_for_all_tasks made after a batch was scheduled
\* eventually returns, given that every started batch gets its terminal
\* callback.
C2_EveryWaitReturns ==
    (wpc \in {"lock", "cond_wait", "cond_notified", "events"}) ~> (wpc = "returned")

\* ---------------------------------------------------------------- ExecSpec
\* Batches running on_task_started and on_task_execute side by side, after
\* initialize_assistants has loaded the workers it could.
ExecNext ==
    \/ \E failed \in SUBSET WorkerNames : InitializeAssistants(failed)
    \/ /\ main_pc # "start"
       /\ \/ \E s \in ExecIds, reqs \in TaskLists : ScheduleTask(s, reqs)
          \/ \E s \in ExecIds : OnTaskStartedEnter(s)
          \/ \E s \in ExecIds : OnTaskStartedRegister(s)
          \/ \E s \in ExecIds : OnTaskStartedExit(s)
          \/ \E s \in ExecIds : OnTaskExecuteRequest(s)
          \/ \E s \in ExecIds : OnTaskExecuteInvoke(s)
          \/ \E s \in ExecIds : OnTaskExecuteAgentDone(s)
          \/ \E s \in ExecIds : OnTaskExecuteReturn(s)
          \/ \E s \in ExecIds : bpc[s] = "executed" /\ OnTaskCompleted(s)
          \/ \E s \in ExecIds : bpc[s] = "raised" /\ OnTaskFailed(s)

ExecSpec == Init /\ [][ExecNext]_vars

\* -------------------------------------------------- claims under ExecSpec
\* the calls a batch makes when it runs to its end: per request, in the
\* declared order, the post, the start of the agent call and its completion
RECURSIVE SequentialCalls(_, _)
SequentialCalls(reqs, i) ==
    IF i > Len(reqs) THEN <<>>
    ELSE <<LogEntry("post", i, reqs[i]), LogEntry("invoke", i, reqs[i]),
           LogEntry("done", i, reqs[i])>> \o SequentialCalls(reqs, i + 1)

IsPrefix(p, q) == Len(p) <= Len(q) /\ \A i \in 1..Len(p) : p[i] = q[i]

AgentCallsInFlight(s) ==
    Cardinality({i \in 1..Len(exec_log[s]) : exec_log[s][i].op = "invoke"})
      - Cardinality({i \in 1..Len(exec_log[s]) : exec_log[s][i].op = "done"})

\* C5: on_task_execute takes the requests of a batch one after the other in
\* the declared order: the instruction of request i is posted before its
\* agent is invoked, that agent call has completed before the instruction of
\* request i+1 is posted, and at most one agent call of a batch is in flight.
C5_SequentialInDeclaredOrder ==
    \A s \in ExecIds :
       /\ IsPrefix(exec_log[s], SequentialCalls(requests[s], 1))
       /\ AgentCallsInFlight(s) \in {0, 1}

\* a batch of two requests has run to its end while another batch has an
\* agent call in flight
C5_Witness ==
    \E s, r \in ExecIds :
       /\ Len(requests[s]) = 2 /\ requests[s][1] # requests[s][2]
       /\ Len(exec_log[s]) = 6 /\ bpc[s] = "executed"
       /\ bpc[r] = "exec_agent"

\* C15: whatever the interleaving of the callbacks of the batches, every call
\* that on_task_execute makes for a batch, the post of an instruction or the
\* run of an agent, names the conversation thread that the on_task_started
\* of the same batch created (the thread of batch s is named s), never the
\* thread of another batch and never no thread.
C15_ExecuteOnOwnThread ==
    [][\A s \in ExecIds :
          ((OnTaskExecuteRequest(s) /\ bpc'[s] = "exec_post") \/ OnTaskExecuteInvoke(s))
             => CallThread = s]_vars

\* -------------------------------------------------------------- RunEndSpec
\* Runs of the loaded agents end, in any order, on threads that hold any
\* text messages of the producer, the consumer and the inspection agent.
RunEndAgents == {Producer, Consumer, "CodeInspectionAgent"}

RunEndNext ==
    \/ \E failed \in SUBSET {Producer, Consumer} : InitializeAssistants(failed)
    \/ /\ main_pc # "start"
       /\ \/ \E t \in RunThreads, a \in RunEndAgents, c \in Contents : AgentMessage(t, a, c)
          \/ \E a \in RunEndAgents, t \in RunThreads, r \in Responses : OnRunEnd(a, t, r)

RunEndSpec == Init /\ [][RunEndNext]_vars

\* C6: on_run_end calls the consumer exactly when the run that ended is the
\* producer's and carries no inline response, and then with the content of
\* the producer's last text message on the thread; any other run end makes
\* no agent call, so a run end adds at most one consumer call.
C6_ForwardIffProducerWithoutResponse ==
    [][\A a \in RunEndAgents, t \in RunThreads, r \in Responses :
          OnRunEnd(a, t, r)
             => IF a = Producer /\ r = NoResponse
                THEN consumer_inputs' =
                        Append(consumer_inputs, GetLastTextMessage(t, Producer).content)
                ELSE consumer_inputs' = consumer_inputs]_vars

\* ---------------------------------------------------------------- MainSpec
\* main(): the assistants are initialized, then the loop reads a line, asks
\* the planner, and schedules the batch (here the empty task list) and waits
\* for it; the task manager runs the callbacks of the scheduled batch.
MainNext ==
    \/ \E failed \in SUBSET {Planner, Consumer} : InitializeAssistants(failed)
    \/ MainReadExit
    \/ MainReadEmpty
    \/ MainReadRequest
    \/ \E content \in Replies : MainPlannerReply(content)
    \/ \E s \in SchedIds : main_pc = "parsed" /\ ScheduleTask(s, <<>>)
    \/ main_pc = "scheduled" /\ WaitCall
    \/ \E s \in SchedIds : OnTaskStartedEnter(s)
    \/ \E s \in SchedIds : OnTaskStartedRegister(s)
    \/ \E s \in SchedIds : OnTaskStartedExit(s)
    \/ \E s \in SchedIds : OnTaskExecuteReturn(s)
    \/ \E s \in SchedIds : bpc[s] = "executed" /\ OnTaskCompleted(s)
    \/ WaitCheckStarted
    \/ WaitReacquire
    \/ WaitEvent
    \/ WaitReturn

MainSpec == Init /\ [][MainNext]_vars

\* the token at position k of text lies in a json-tagged fenced block
InJsonBlock(text, k) ==
    \E i \in 1..k :
       /\ BlockEnd(text, i) >= k
       /\ \A h \in 1..(i - 1) : BlockEnd(text, h) = 0 \/ BlockEnd(text, h) < i
QuestionOutsideBlocks(text) ==
    \E k \in 1..Len(text) : text[k] \in QuestionTokens /\ ~InJsonBlock(text, k)
TaskListParses(text) ==
    IF \E i \in 1..Len(text) : BlockEnd(text, i) # 0
    THEN IsJson(extract_json_code_block(text))
    ELSE IsJson(text)
Schedulable(text) == ~QuestionOutsideBlocks(text) /\ TaskListParses(text)

\* C7: in an iteration of the loop a batch is scheduled, and
\* wait_for_all_tasks called, only if the planner's reply has no question
\* mark outside json-tagged fenced blocks and its task list parses as JSON;
\* otherwise nothing is scheduled, no wait is called and the loop goes on
\* with the next prompt.
C7_ScheduleOnlyParsedUnquestioned ==
    [][/\ (main_pc = "planner" /\ main_pc' # "planner")
            => /\ UNCHANGED <<bpc, wpc>>
               /\ IF Schedulable(reply') THEN main_pc' = "parsed" ELSE main_pc' = "ready"
       /\ (\E s \in SchedIds : bpc[s] = "idle" /\ bpc'[s] # "idle") => Schedulable(reply)
       /\ (wpc \in {"idle", "returned"} /\ wpc' = "lock") => Schedulable(reply)]_vars

\* a reply with a question mark inside its json block was scheduled and
\* waited for, and the next reply, with a question mark outside, was not
C7_Witness ==
    /\ waits = 1
    /\ main_pc = "ready"
    /\ QuestionOutsideBlocks(reply)
    /\ \E k \in 1..Len(reply) : reply[k] \in QuestionTokens /\ InJsonBlock(reply, k)
    /\ Cardinality({s \in SchedIds : bpc[s] # "idle"}) = 1

\* C8: whatever configurations failed to load, no later step ends main()
\* with a fault.
C8_NoFaultAfterFailedLoad == main_pc # "crashed"

\* ------------------------------------------------ conversation.py: texts
\* A text is a sequence of characters.  The suffix ".png", the directory
\* name and the constant pieces of the generated markup are single tokens.
DigitChars == <<"0", "1", "2", "3", "4", "5", "6", "7", "8", "9">>
Digits == {DigitChars[i] : i \in 1..10}
WhiteSpace == {" ", "\n"}
FilePath == <<"output">>

LinkOpen == "<div style=\"display: inline-block;\"><a href=\""
LinkStyle == "\" style=\"color:green; text-decoration: underline;\" download=\""
LinkLabel == "\">"
LinkClose == "</a></div><div style=\"display: inline-block; color:gray;\">"
PathClose == "</div>"
\* the tokens that hold a space: [^ ] does not run over them
Spaced == {" ", LinkOpen, LinkStyle, LinkClose}

Max(S) == CHOOSE x \in S : \A y \in S : y <= x

\* last position of the longest run of tokens in S (outside S) that starts
\* at i; i - 1 when the run is empty
RECURSIVE RunEnd(_, _, _)
RunEnd(text, i, S) ==
    IF i <= Len(text) /\ text[i] \in S THEN RunEnd(text, i + 1, S) ELSE i - 1
RECURSIVE RunEndNot(_, _, _)
RunEndNot(text, i, S) ==
    IF i <= Len(text) /\ text[i] \notin S THEN RunEndNot(text, i + 1, S) ELSE i - 1

\* \[(\d+)\] tried at i: the position of the closing bracket, 0 if no match
TagEnd(text, i) ==
    IF i <= Len(text) /\ text[i] = "["
    THEN LET e == RunEnd(text, i + 1, Digits)
         IN  IF e >= i + 1 /\ e + 1 <= Len(text) /\ text[e + 1] = "]" THEN e + 1 ELSE 0
    ELSE 0

\* \[(\d+)\]\s*(.+) tried at i: first and last position of group 2, <<0, 0>>
\* if no match.  \s* takes all the white space and gives some back only when
\* nothing but the end of the text follows it.
CitationMatch(text, i) ==
    LET t == TagEnd(text, i)
    IN  IF t = 0 THEN <<0, 0>>
        ELSE LET w == RunEnd(text, t + 1, WhiteSpace)
                 starts == IF w + 1 <= Len(text) THEN {w + 1}
                           ELSE {k \in (t + 1)..w : text[k] # "\n"}
             IN  IF starts = {} THEN <<0, 0>>
                 ELSE <<Max(starts), RunEndNot(text, Max(starts), {"\n"})>>

\* re.findall and the loop that fills citation_to_filename: a later match
\* of an index replaces an earlier one
RECURSIVE CitationToFilename(_, _, _)
CitationToFilename(text, from, found) ==
    LET starts == {i \in from..Len(text) : CitationMatch(text, i)[1] # 0}
    IN  IF starts = {} THEN found
        ELSE LET i == Min(starts)
                 m == CitationMatch(text, i)
                 index == SubSeq(text, i + 1, TagEnd(text, i) - 1)
             IN  CitationToFilename(text, m[2] + 1,
                                    (index :> SubSeq(text, m[1], m[2])) @@ found)

\* \[([^\]]+)\]\(\s*\[(\d+)\]\s*\) tried at i
NoMatch == [label_end |-> 0, tag |-> 0, tag_end |-> 0, end |-> 0]
LinkMatch(text, i) ==
    IF text[i] # "[" THEN NoMatch
    ELSE LET c == RunEndNot(text, i + 1, {"]"})
         IN  IF ~(c >= i + 1 /\ c + 2 <= Len(text) /\ text[c + 1] = "]" /\ text[c + 2] = "(")
             THEN NoMatch
             ELSE LET w1 == RunEnd(text, c + 3, WhiteSpace)
                      t == TagEnd(text, w1 + 1)
                      w2 == RunEnd(text, t + 1, WhiteSpace)
                  IN  IF t # 0 /\ w2 + 1 <= Len(text) /\ text[w2 + 1] = ")"
                      THEN [label_end |-> c, tag |-> w1 + 1, tag_end |-> t, end |-> w2 + 1]
                      ELSE NoMatch

\* str(n)
RECURSIVE Decimal(_)
Decimal(n) ==
    IF n < 10 THEN <<DigitChars[n + 1]>>
    ELSE Decimal(n \div 10) \o <<DigitChars[(n % 10) + 1]>>

\* os.path.join(self.file_path, file_name)
PathJoin(dir, name) ==
    IF name # <<>> /\ name[1] = "/" THEN name
    ELSE IF dir # <<>> /\ dir[Len(dir)] = "/" THEN dir \o name
    ELSE dir \o <<"/">> \o name

\* os.path.normpath on a relative path: empty and "." components go, a ".."
\* takes the component before it along
RECURSIVE NormComponents(_, _, _)
NormComponents(path, i, done) ==
    IF i > Len(path) THEN done
    ELSE LET e == RunEndNot(path, i, {"/"})
             comp == SubSeq(path, i, e)
             next == IF comp = <<>> \/ comp = <<".">> THEN done
                     ELSE IF comp = <<"..">> /\ done # <<>> /\ done[Len(done)] # <<"..">>
                          THEN SubSeq(done, 1, Len(done) - 1)
                     ELSE Append(done, comp)
         IN  NormComponents(path, e + 2, next)
RECURSIVE JoinComponents(_)
JoinComponents(comps) ==
    IF comps = <<>> THEN <<>>
    ELSE IF Len(comps) = 1 THEN comps[1]
    ELSE comps[1] \o <<"/">> \o JoinComponents(Tail(comps))
NormPath(path) ==
    LET comps == NormComponents(path, 1, <<>>)
    IN  IF comps = <<>> THEN <<".">> ELSE JoinComponents(comps)

\* replace_with_clickable_text: the markup for one marker and the new map; a
\* callback that returns None makes re.sub put nothing in place of the match
replace_with_clickable_text(link_text, citation_index, citation_to_filename, map) ==
    IF citation_index \notin DOMAIN citation_to_filename
    THEN [html |-> <<>>, map |-> map]
    ELSE LET file_name == citation_to_filename[citation_index]
             local_file_path == NormPath(PathJoin(FilePath, file_name))
             key == IF link_text \in DOMAIN map
                    THEN link_text \o <<" ">> \o Decimal(Cardinality(DOMAIN map) + 1)
                    ELSE link_text
         IN  [html |-> <<LinkOpen>> \o local_file_path \o <<LinkStyle>> \o file_name
                         \o <<LinkLabel>> \o key \o <<LinkClose>> \o local_file_path
                         \o <<PathClose>>,
              map |-> (key :> local_file_path) @@ map]

\* re.sub(citation_link_pattern, replace_with_clickable_text, text)
RECURSIVE ReplaceLinks(_, _, _, _)
ReplaceLinks(text, from, citation_to_filename, map) ==
    LET starts == {i \in from..Len(text) : LinkMatch(text, i) # NoMatch}
    IN  IF starts = {} THEN [out |-> SubSeq(text, from, Len(text)), map |-> map]
        ELSE LET i == Min(starts)
                 m == LinkMatch(text, i)
                 r == replace_with_clickable_text(SubSeq(text, i + 1, m.label_end),
                                                  SubSeq(text, m.tag + 1, m.tag_end - 1),
                                                  citation_to_filename, map)
                 rest == ReplaceLinks(text, m.end + 1, citation_to_filename, r.map)
             IN  [out |-> SubSeq(text, from, i - 1) \o r.html \o rest.out, map |-> rest.map]

\* \[\d+\]\s*[^ ]+\.png tried at i: the position of the ".png" that ends
\* the match, 0 if no match
CitationLineEnd(text, i) ==
    LET t == TagEnd(text, i)
    IN  IF t = 0 THEN 0
        ELSE LET w == RunEnd(text, t + 1, WhiteSpace)
                 EndFrom(k) ==
                     LET ps == {p \in (k + 1)..RunEndNot(text, k, Spaced) : text[p] = ".png"}
                     IN  IF ps = {} THEN 0 ELSE Max(ps)
                 ks == {k \in (t + 1)..(w + 1) : EndFrom(k) # 0}
             IN  IF ks = {} THEN 0 ELSE EndFrom(Max(ks))

\* re.sub(r'\[\d+\]\s*[^ ]+\.png', '', updated_text)
RECURSIVE RemoveCitationLines(_, _)
RemoveCitationLines(text, from) ==
    LET starts == {i \in from..Len(text) : CitationLineEnd(text, i) # 0}
    IN  IF starts = {} THEN SubSeq(text, from, Len(text))
        ELSE SubSeq(text, from, Min(starts) - 1)
               \o RemoveCitationLines(text, CitationLineEnd(text, Min(starts)) + 1)

EmptyMap == <<>>

format_file_links(text, map) ==
    LET citation_to_filename == CitationToFilename(text, 1, EmptyMap)
        r == ReplaceLinks(text, 1, citation_to_filename, map)
    IN  [text |-> RemoveCitationLines(r.out, 1), map |-> r.map]

\* the texts handed to the renderer: up to MaxParts parts, each a marker
\* [label]([N]), a definition "[N] name.png", a blank, a line break or a word
MarkerText(label, index) == <<"[">> \o label \o <<"]", "(", "[">> \o index \o <<"]", ")">>
DefinitionText(index, name) == <<"[">> \o index \o <<"]", " ">> \o name \o <<".png">>
Parts ==
    { MarkerText(<<"s">>, <<"0">>), MarkerText(<<"t">>, <<"1">>),
      DefinitionText(<<"0">>, <<"c">>), DefinitionText(<<"1">>, <<"d">>),
      <<" ">>, <<"\n">>, <<"x">> }
Texts == {Flatten(ps) : ps \in SeqsUpTo(Parts, MaxParts)}

\* ------------------------------------------------------ format_file_links
\* one call of format_file_links on a prose segment, as append_message makes
\* for every segment of a text message that is not code
FormatFileLinks(text) ==
    /\ renders < MaxRenders
    /\ LET r == format_file_links(text, text_to_url_map)
       IN  /\ updated_text' = r.text
           /\ text_to_url_map' = r.map
    /\ prose' = text
    /\ renders' = renders + 1
    /\ UNCHANGED <<mainVars, rendezvousVars, thread_name, bpc, execVars, runVars,
                   transcript, scroll_value, appends, urlVars, parseVars, chunkVars>>

\* -------------------------------------------------------------- RenderSpec
\* A conversation view is constructed and prose segments are formatted.
RenderNext == \E text \in Texts : FormatFileLinks(text)

RenderSpec == Init /\ [][RenderNext]_vars

\* text p occurs in text q
Occurs(p, q) == \E i \in 1..(Len(q) - Len(p) + 1) : SubSeq(q, i, i + Len(p) - 1) = p

CitedIndexes == {<<"0">>, <<"1">>}
CitedNames == {<<"c">>, <<"d">>}
Labels == {<<"s">>, <<"t">>}
Defines(text, index) == \E name \in CitedNames : Occurs(DefinitionText(index, name), text)

\* C9: when the formatted prose holds a definition "[N] name.png" and a
\* marker [label]([N]) for the same N, in either order, on one line or on
\* two, the returned text holds a link to output/name.png, the map records
\* that path under the label, and the definition is gone from the text.
C9_DefinitionAndMarkerResolve ==
    \A index \in CitedIndexes, name \in CitedNames, label \in Labels :
       (/\ renders = 1
        /\ Occurs(DefinitionText(index, name), prose)
        /\ Occurs(MarkerText(label, index), prose))
          => LET path == FilePath \o <<"/">> \o name \o <<".png">>
             IN  /\ Occurs(<<LinkOpen>> \o path \o <<LinkStyle>>, updated_text)
                 /\ label \in DOMAIN text_to_url_map
                 /\ text_to_url_map[label] = path
                 /\ ~Occurs(DefinitionText(index, name), updated_text)

\* C10: when the formatted prose holds a marker [label]([N]) and no
\* definition for N, no link is emitted for the marker, the map gets no
\* entry for it, and the marker stays in the returned text; when no index
\* at all is defined the text comes back unchanged.
C10_UndefinedMarkerLeftInPlace ==
    \A index \in CitedIndexes, label \in Labels :
       (/\ renders = 1
        /\ Occurs(MarkerText(label, index), prose)
        /\ ~Defines(prose, index))
          => /\ Occurs(MarkerText(label, index), updated_text)
             /\ label \notin DOMAIN text_to_url_map
             /\ (\A other \in CitedIndexes : ~Defines(prose, other))
                   => updated_text = prose /\ text_to_url_map = EmptyMap

\* ------------------------------------------------------------ format_urls
Schemes == {"http://", "https://"}
AnchorOpen == <<"<a", " ", "href=\"">>
AnchorStyle == <<"\"", " ", "style=\"color:blue;\">">>
AnchorClose == <<"</a>">>

\* the constant pieces of the file link markup, cut at their blanks: \S+
\* runs over the words and stops at the blanks
WordsOf(token) ==
    CASE token = LinkOpen ->
           <<"<div", " ", "style=\"display:", " ", "inline-block;\"><a", " ", "href=\"">>
      [] token = LinkStyle ->
           <<"\"", " ", "style=\"color:green;", " ", "text-decoration:", " ",
             "underline;\"", " ", "download=\"">>
      [] token = LinkClose ->
           <<"</a></div><div", " ", "style=\"display:", " ", "inline-block;", " ",
             "color:gray;\">">>
      [] OTHER -> <<token>>
RECURSIVE Words(_)
Words(text) == IF text = <<>> THEN <<>> ELSE WordsOf(Head(text)) \o Words(Tail(text))

\* url_regex.sub(replace_with_link, text) for (https?://\S+)
RECURSIVE ReplaceUrls(_, _)
ReplaceUrls(text, from) ==
    LET starts == {i \in from..Len(text) :
                      text[i] \in Schemes /\ RunEndNot(text, i + 1, WhiteSpace) >= i + 1}
    IN  IF starts = {} THEN SubSeq(text, from, Len(text))
        ELSE LET i == Min(starts)
                 e == RunEndNot(text, i + 1, WhiteSpace)
                 url == SubSeq(text, i, e)
             IN  SubSeq(text, from, i - 1) \o AnchorOpen \o url \o AnchorStyle \o url
                   \o AnchorClose \o ReplaceUrls(text, e + 1)

format_urls(text) == CHOOSE out \in {ReplaceUrls(words, 1) : words \in {Words(text)}} : TRUE

\* ---------------------------------------------------------- parse_message
\* str.split(sep) for a separator that is one token
RECURSIVE SplitOn(_, _)
SplitOn(text, sep) ==
    LET hits == {i \in 1..Len(text) : text[i] = sep}
    IN  IF hits = {} THEN <<text>>
        ELSE <<SubSeq(text, 1, Min(hits) - 1)>>
               \o SplitOn(SubSeq(text, Min(hits) + 1, Len(text)), sep)

\* str.strip('\n')
StripNewlines(text) ==
    LET kept == {i \in 1..Len(text) : text[i] # "\n"}
    IN  IF kept = {} THEN <<>> ELSE SubSeq(text, Min(kept), Max(kept))

\* part.split('\n', 1): a part of more than one line loses its first line
CodeOf(part) ==
    LET breaks == {i \in 1..Len(part) : part[i] = "\n"}
    IN  IF breaks = {} THEN StripNewlines(part)
        ELSE StripNewlines(SubSeq(part, Min(breaks) + 1, Len(part)))

parse_message(message) ==
    LET parts == SplitOn(message, "<fence>")
    IN  [i \in 1..Len(parts) |->
            IF (i - 1) % 2 # 0
            THEN [is_code |-> TRUE, text |-> CodeOf(parts[i])]
            ELSE [is_code |-> FALSE, text |-> parts[i]]]

\* ------------------------------------------------------------ html.escape
EscapeOf(token) ==
    CASE token = "&" -> "&amp;"
      [] token = "<" -> "&lt;"
      [] token = ">" -> "&gt;"
      [] token = "\"" -> "&quot;"
      [] token = "'" -> "&#x27;"
      [] OTHER -> token
HtmlEscape(text) == [i \in 1..Len(text) |-> EscapeOf(text[i])]

\* --------------------------------------------------------- the transcript
\* The document of conversationView is the sequence of the insertions made
\* at its end: cursor.insertHtml(body) and cursor.insertText(body).
InsertHtml(doc, body) == Append(doc, [insert |-> "html", body |-> body])
InsertText(doc, body) == Append(doc, [insert |-> "text", body |-> body])

SenderLabel(sender, color) == <<"<b style='color:", color, ";'>", sender, ":</b> ">>
CodeBlock(text) ==
    <<"<pre class='code-block'>">>
      \o [i \in 1..Len(text) |-> IF text[i] = "\n" THEN "<br>" ELSE EscapeOf(text[i])]
      \o <<"</pre>">>
TextBlock(text) ==
    <<"<span class='text-block' style='white-space: pre-wrap;'>">> \o text \o <<"</span>">>

\* F applied to the value of x, with x evaluated once
Bind(x, F(_)) == CHOOSE out \in {F(v) : v \in {x}} : TRUE

\* the loop of append_message over the segments
RECURSIVE InsertSegments(_, _, _, _)
InsertSegments(segs, i, doc, map) ==
    IF i > Len(segs) THEN [doc |-> doc, map |-> map]
    ELSE IF segs[i].is_code
    THEN Bind(InsertText(InsertHtml(doc, CodeBlock(segs[i].text)), <<"\n">>),
              LAMBDA next : InsertSegments(segs, i + 1, next, map))
    ELSE Bind(format_file_links(segs[i].text, map),
              LAMBDA r :
                 Bind(InsertText(InsertHtml(doc, TextBlock(format_urls(r.text))), <<"\n">>),
                      LAMBDA next : InsertSegments(segs, i + 1, next, r.map)))

append_message(sender, message, color, doc, map) ==
    Bind(parse_message(message),
         LAMBDA segs :
            Bind(InsertSegments(segs, 1, InsertHtml(doc, SenderLabel(sender, color)), map),
                 LAMBDA r : [doc |-> InsertText(r.doc, <<"\n">>), map |-> r.map]))

\* append_image: the file's bytes are the environment's; their encoding is
\* one token
append_image(doc, image_path) ==
    InsertText(InsertHtml(doc, <<"<img src='data:image/png;base64,", "base64 of">>
                                 \o image_path
                                 \o <<"' alt='Image' style='width:100px; height:auto;'>">>),
               <<"\n\n">>)

\* the loop of append_messages: for message in reversed(messages)
RECURSIVE AppendEach(_, _, _, _, _)
AppendEach(messages, i, dark, doc, map) ==
    IF i = 0 THEN [doc |-> doc, map |-> map]
    ELSE IF messages[i].type = "text"
    THEN LET color == IF messages[i].role # "assistant" THEN "blue"
                      ELSE IF dark THEN "#D3D3D3" ELSE "black"
         IN  Bind(append_message(messages[i].sender, messages[i].content, color, doc, map),
                  LAMBDA r : AppendEach(messages, i - 1, dark, r.doc, r.map))
    ELSE IF messages[i].type = "image_file"
    THEN Bind(append_image(doc, messages[i].content),
              LAMBDA next : AppendEach(messages, i - 1, dark, next, map))
    ELSE AppendEach(messages, i - 1, dark, doc, map)

\* the messages handed to the view.  A text content is up to MaxLines lines,
\* each a marker, and then the definition line of the index they cite; one
\* content holds a fenced block.
MarkerLine(label) == MarkerText(label, <<"0">>) \o <<"\n">>
MessageLines == {MarkerLine(<<"s">>), MarkerLine(<<"s", " ", "3">>)}
MessageTexts ==
    {Flatten(ls) \o DefinitionText(<<"0">>, <<"c">>) : ls \in SeqsUpTo(MessageLines, MaxLines)}
      \cup {<<"x", "\n", "<fence>", "py", "\n", "x", "<fence>">>}
TextMessages ==
    {[type |-> "text", role |-> "assistant", sender |-> "assistant", content |-> c] :
        c \in MessageTexts}
      \cup {[type |-> "text", role |-> "user", sender |-> "user", content |-> <<"x">>]}
Messages ==
    TextMessages
      \cup {[type |-> "image_file", role |-> "assistant", sender |-> "assistant",
             content |-> <<"output", "/", "image", ".png">>],
            [type |-> "file", role |-> "assistant", sender |-> "assistant",
             content |-> <<"output", "/", "file", ".csv">>]}
MessageLists == SeqsUpTo(Messages, MaxMessageList)

AppendMessages(messages, dark) ==
    /\ appends < MaxAppends
    /\ \E r \in {AppendEach(messages, Len(messages), dark, transcript, EmptyMap)} :
           /\ transcript' = r.doc
           /\ text_to_url_map' = r.map
           /\ scroll_value' = IF r.doc # transcript THEN Len(r.doc) ELSE scroll_value
    /\ appends' = appends + 1
    /\ UNCHANGED <<mainVars, rendezvousVars, thread_name, bpc, execVars, runVars,
                   prose, updated_text, renders, urlVars, parseVars, chunkVars>>

AppendMessage(sender, message, color) ==
    /\ appends < MaxAppends
    /\ \E r \in {append_message(sender, message, color, transcript, text_to_url_map)} :
           /\ transcript' = r.doc
           /\ text_to_url_map' = r.map
           /\ scroll_value' = Len(r.doc)
    /\ appends' = appends + 1
    /\ UNCHANGED <<mainVars, rendezvousVars, thread_name, bpc, execVars, runVars,
                   prose, updated_text, renders, urlVars, parseVars, chunkVars>>

\* -------------------------------------------------------------- AppendSpec
\* Messages are appended to a view one at a time and whole lists are
\* rendered, in any order.
AppendNext ==
    \/ \E m \in TextMessages : AppendMessage(m.sender, m.content, "black")
    \/ \E messages \in MessageLists, dark \in BOOLEAN : AppendMessages(messages, dark)

AppendSpec == Init /\ [][AppendNext]_vars

\* links in the insertions that doc holds after its first n
RECURSIVE CountToken(_, _)
CountToken(text, token) ==
    IF text = <<>> THEN 0
    ELSE (IF Head(text) = token THEN 1 ELSE 0) + CountToken(Tail(text), token)
RECURSIVE LinksAfter(_, _)
LinksAfter(doc, n) ==
    IF Len(doc) <= n THEN 0
    ELSE CountToken(doc[Len(doc)].body, LinkLabel) + LinksAfter(SubSeq(doc, 1, Len(doc) - 1), n)

\* C11: after append_messages(M), whatever was rendered before, the map
\* holds as many entries as markers were resolved to links while rendering
\* M: nothing survives from before the call and no entry made during the
\* call is overwritten by a later one.
C11_OneEntryPerResolvedMarker ==
    [][\A messages \in MessageLists, dark \in BOOLEAN :
          AppendMessages(messages, dark)
             => Cardinality(DOMAIN text_to_url_map') = LinksAfter(transcript', Len(transcript))]_vars

\* ----------------------------------------------------------------- UrlSpec
\* format_urls is applied to a text and then to its own result.
UrlParts == {<<"http://">>, <<"https://">>, <<"a">>, <<" ">>, <<"\n">>}
UrlTexts == {Flatten(ps) : ps \in SeqsUpTo(UrlParts, MaxUrlParts)}

FormatUrls(text) ==
    /\ url_passes = 0
    /\ url_in' = text
    /\ url_out' = format_urls(text)
    /\ url_passes' = 1
    /\ UNCHANGED <<mainVars, rendezvousVars, thread_name, bpc, execVars, runVars, fileLinkVars,
                   transcript, scroll_value, appends, parseVars, chunkVars>>

FormatUrlsAgain ==
    /\ url_passes \in 1..(MaxUrlPasses - 1)
    /\ url_in' = url_out
    /\ url_out' = format_urls(url_out)
    /\ url_passes' = url_passes + 1
    /\ UNCHANGED <<mainVars, rendezvousVars, thread_name, bpc, execVars, runVars, fileLinkVars,
                   transcript, scroll_value, appends, parseVars, chunkVars>>

UrlNext ==
    \/ \E text \in UrlTexts : FormatUrls(text)
    \/ FormatUrlsAgain

UrlSpec == Init /\ [][UrlNext]_vars

\* C12: format_urls applied to its own result gives that result back, and a
\* text without an http:// or https:// token comes back as it went in.
C12_FormatUrlsIdempotent ==
    /\ url_passes >= 2 => url_out = url_in
    /\ (url_passes = 1 /\ \A i \in 1..Len(url_in) : url_in[i] \notin Schemes) => url_out = url_in

\* --------------------------------------------------------------- ParseSpec
\* parse_message is applied to a message text.
ParseParts == {"<fence>", "\n", "py", "a", " "}
ParseTexts == SeqsUpTo(ParseParts, MaxParseParts)

ParseMessage(message) ==
    /\ parses < MaxParses
    /\ parsed_message' = message
    /\ parsed_segments' = parse_message(message)
    /\ parses' = parses + 1
    /\ UNCHANGED <<mainVars, rendezvousVars, thread_name, bpc, execVars, runVars, fileLinkVars,
                   transcript, scroll_value, appends, urlVars, chunkVars>>

ParseNext == \E message \in ParseTexts : ParseMessage(message)

ParseSpec == Init /\ [][ParseNext]_vars

\* positions of the delimiters in the parsed message, with both ends of it
FenceAt(n) ==
    LET fences == {j \in 1..Len(parsed_message) : parsed_message[j] = "<fence>"}
    IN  IF n = 0 THEN 0
        ELSE IF n > Cardinality(fences) THEN Len(parsed_message) + 1
        ELSE CHOOSE j \in fences : Cardinality({x \in fences : x < j}) = n - 1
\* the source text between delimiter i - 1 and delimiter i
SourcePart(i) == SubSeq(parsed_message, FenceAt(i - 1) + 1, FenceAt(i) - 1)
LanguageTags == {"py"}
\* fenced content without a language tag that ends its first line and
\* without the line breaks around the code
FencedCode(part) ==
    IF Len(part) >= 2 /\ part[1] \in LanguageTags /\ part[2] = "\n"
    THEN StripNewlines(SubSeq(part, 3, Len(part)))
    ELSE StripNewlines(part)

\* C13: a message with k delimiters is parsed into k + 1 segments in source
\* order, the odd ones (counted from 0) code; a prose segment is the source
\* text between its delimiters, a code segment the fenced content less a
\* leading language tag and the line breaks around the code.
C13_SegmentsKeepTheSource ==
    parses > 0 =>
       LET k == Cardinality({j \in 1..Len(parsed_message) : parsed_message[j] = "<fence>"})
       IN  /\ Len(parsed_segments) = k + 1
           /\ \A i \in 1..Len(parsed_segments) :
                 /\ parsed_segments[i].is_code = ((i - 1) % 2 = 1)
                 /\ parsed_segments[i].text =
                       IF (i - 1) % 2 = 1 THEN FencedCode(SourcePart(i)) ELSE SourcePart(i)

\* --------------------------------------------------- append_message_chunk
ChunkLabel(sender) == <<"<b style='color:black;'>">> \o HtmlEscape(sender) \o <<":</b> ">>

\* as append_message_chunk would be if it ended every chunk with a line
\* break, the way append_message ends its segments
append_message_chunk_Newline(sender, message_chunk, is_start_of_message, doc) ==
    InsertText(InsertHtml(IF is_start_of_message THEN InsertHtml(doc, ChunkLabel(sender)) ELSE doc,
                          TextBlock(HtmlEscape(message_chunk))),
               <<"\n">>)

append_message_chunk(sender, message_chunk, is_start_of_message, doc) ==
    InsertHtml(IF is_start_of_message THEN InsertHtml(doc, ChunkLabel(sender)) ELSE doc,
               TextBlock(HtmlEscape(message_chunk)))

\* the senders and the chunks of the streamed messages
Senders == {<<"Q", "&", "A">>}
ChunkChars == {"a", "<", "\n"}
Chunks == SeqsUpTo(ChunkChars, MaxChunkLen)

\* stream records the calls since the last one that started a message
AppendMessageChunk(sender, message_chunk, is_start_of_message) ==
    /\ chunk_calls < MaxChunks
    /\ \E doc \in {append_message_chunk(sender, message_chunk, is_start_of_message, transcript)} :
          /\ transcript' = doc
          /\ scroll_value' = Len(doc)
    /\ stream' = IF is_start_of_message
                 THEN [started |-> TRUE, from |-> Len(transcript), sender |-> sender,
                       chunks |-> <<message_chunk>>]
                 ELSE [stream EXCEPT !.chunks = Append(@, message_chunk)]
    /\ chunk_calls' = chunk_calls + 1
    /\ UNCHANGED <<mainVars, rendezvousVars, thread_name, bpc, execVars, runVars, fileLinkVars,
                   appends, urlVars, parseVars>>

\* --------------------------------------------------------------- ChunkSpec
\* Messages are streamed to a view chunk by chunk.
ChunkNext ==
    \E sender \in Senders, message_chunk \in Chunks, is_start_of_message \in BOOLEAN :
       AppendMessageChunk(sender, message_chunk, is_start_of_message)

ChunkSpec == Init /\ [][ChunkNext]_vars

\* the text that a piece of escaped markup shows
UnescapeOf(token) ==
    CASE token = "&amp;" -> "&"
      [] token = "&lt;" -> "<"
      [] token = "&gt;" -> ">"
      [] token = "&quot;" -> "\""
      [] token = "&#x27;" -> "'"
      [] OTHER -> token
Shown(body) == [i \in 1..Len(body) |-> UnescapeOf(body[i])]
\* the insertion is a span of pre-wrapped text that shows exactly the chunk
ShowsChunk(item, message_chunk) ==
    /\ item.insert = "html"
    /\ Len(item.body) = Len(message_chunk) + 2
    /\ item.body[1] = "<span class='text-block' style='white-space: pre-wrap;'>"
    /\ item.body[Len(item.body)] = "</span>"
    /\ Shown(SubSeq(item.body, 2, Len(item.body) - 1)) = message_chunk
\* the insertion is the bold label of the sender
ShowsLabel(item, sender) ==
    /\ item.insert = "html"
    /\ Len(item.body) = Len(sender) + 2
    /\ item.body[1] = "<b style='color:black;'>"
    /\ item.body[Len(item.body)] = ":</b> "
    /\ Shown(SubSeq(item.body, 2, Len(item.body) - 1)) = sender

\* C14: the calls that stream one message (the first with is_start, the
\* others without) add to the transcript one sender label and then one span
\* per chunk, in call order, each showing its chunk, with nothing inserted
\* between them; after each call the view is scrolled to the end.
C14_StreamIsLabelThenChunks ==
    stream.started =>
       LET added == SubSeq(transcript, stream.from + 1, Len(transcript))
       IN  /\ Len(added) = 1 + Len(stream.chunks)
           /\ ShowsLabel(added[1], stream.sender)
           /\ \A i \in 1..Len(stream.chunks) : ShowsChunk(added[i + 1], stream.chunks[i])
           /\ scroll_value = Len(transcript)

\* a message of three chunks has been streamed after an earlier message, one
\* chunk a line break and one a character that is escaped
C14_Witness ==
    /\ stream.started /\ stream.from > 0
    /\ Len(stream.chunks) = 3
    /\ <<"\n">> \in {stream.chunks[i] : i \in 1..3}
    /\ <<"<">> \in {stream.chunks[i] : i \in 1..3}

====
